---- MODULE Spec2Model ----
(***************************************************************************)
(* Stock reconciliation engine of the pharmacy retail application          *)
(* (App component, src/unnamed/part_001) together with the billing cart    *)
(* (Billing component, src/components/PaymentEntry.tsx) and the document   *)
(* store it writes to.                                                     *)
(*                                                                         *)
(* db is the document store (one map of documents per collection).  Each   *)
(* session (a signed-in browser) holds React state: the snapshot-listener  *)
(* copies of the collections, the billing cart, the bill being edited,     *)
(* and a generateBill call suspended at its await.                         *)
(* Strings that the code parses or formats (bill numbers) are sequences of *)
(* one-character strings.                                                  *)
(***************************************************************************)
EXTENDS Integers, Sequences, FiniteSets, TLC

VARIABLES
    db,              \* the store: [products, bills, purchases, companies, payments],
                     \* each id -> document
    products,        \* products[s]: session s's snapshot copy of db.products
    bills,           \* bills[s]: session s's snapshot copy of db.bills
    purchases,       \* purchases[s]: session s's snapshot copy of db.purchases
    companies,       \* companies[s]: session s's snapshot copy of db.companies
    payments,        \* payments[s]: session s's snapshot copy of db.payments
    cart,            \* cart[s]: Billing component state
    editingBill,     \* editingBill[s]: App state, the bill under edit or None
    editingPurchase, \* editingPurchase[s]: Purchases component state
    pending,         \* pending[s]: handleGenerateBill suspended after getDocs
    printing,        \* printing[s]: print callback still to run ("none" | "new" | "edit")
    nextId,          \* next auto-generated document id (doc(collection(...)))
    now,             \* last value returned by Date.now()
    commits,         \* number of write batches the store has committed
    last,            \* outcome of the last handler that reached the store
    issued           \* the bill numbers given to bills so far

vars == <<db, products, bills, purchases, companies, payments, issued, cart, editingBill, editingPurchase,
          pending, printing, nextId, now, commits, last>>

Sessions == {1, 2}

\* ----------------------------------------------------------------- bounds
MaxCommits == 3    \* write batches committed in one run
MaxLines == 2      \* line items of one purchase

Stocks == {1, 2}          \* stock of a batch at the start
Quantities == {1, 2}      \* quantity of a purchase line
BatchNumbers == {"X", "Y"}
Randoms == {1, 2}         \* values of Math.random().toString(36).substring(2, 9)

None == [none |-> TRUE]
NaN == -1          \* parseInt's NaN: never the value of a digit string
NoId == 0          \* an optional productId that is not set
NoBatch == <<>>    \* an optional batchId that is not set

\* ------------------------------------------------------- document store
Put(c, id, doc) == [k \in DOMAIN c \cup {id} |-> IF k = id THEN doc ELSE c[k]]

Remove(c, id) == [k \in DOMAIN c \ {id} |-> c[k]]

\* updateDoc / batch.update: the named fields are replaced, the others kept.
Merge(old, data) ==
    [f \in DOMAIN old \cup DOMAIN data |-> IF f \in DOMAIN data THEN data[f] ELSE old[f]]

\* arrayUnion: the element is appended unless an equal element is present.
ArrayUnion(arr, el) == IF \E i \in DOMAIN arr : arr[i] = el THEN arr ELSE Append(arr, el)

\* One write of a write batch applied to the store.
ApplyWrite(d, w) ==
    LET c == d[w.coll] IN
    CASE w.op = "set"        -> [d EXCEPT ![w.coll] = Put(c, w.id, w.data)]
      [] w.op = "update"     -> [d EXCEPT ![w.coll] = Put(c, w.id, Merge(c[w.id], w.data))]
      [] w.op = "arrayUnion" ->
            [d EXCEPT ![w.coll] =
                Put(c, w.id, [c[w.id] EXCEPT !.batches = ArrayUnion(c[w.id].batches, w.data)])]
      [] w.op = "delete"     -> [d EXCEPT ![w.coll] = Remove(c, w.id)]

\* The writes of a batch are applied in the order they were added.
RECURSIVE ApplyWrites(_, _)
ApplyWrites(d, ws) ==
    IF ws = <<>> THEN d ELSE ApplyWrites(ApplyWrite(d, Head(ws)), Tail(ws))

\* An update (or a field transform) of a document that does not exist fails,
\* and with it the whole batch.
RECURSIVE WritesValid(_, _)
WritesValid(d, ws) ==
    IF ws = <<>> THEN TRUE
    ELSE /\ Head(ws).op \in {"update", "arrayUnion"} => Head(ws).id \in DOMAIN d[Head(ws).coll]
         /\ WritesValid(ApplyWrite(d, Head(ws)), Tail(ws))

\* batch.commit(): all writes or none; accept is the store's verdict on the
\* request as a whole (permission, network).
Committed(ws, accept) == accept /\ WritesValid(db, ws)

\* The bill numbers of the bills a list of writes creates
BillNumbersSet(ws) ==
    {ws[i].data.billNumber : i \in {j \in DOMAIN ws : ws[j].op = "set" /\ ws[j].coll = "bills"}}

\* A store without write batches: the writes are sent one by one, and a
\* rejected request has had its first write applied.

CommitOneByOne(s, ws, accept) ==
    LET sent == IF Committed(ws, accept) THEN ws
                ELSE IF ws = <<>> THEN <<>> ELSE <<Head(ws)>>
        d == ApplyWrites(db, sent)
    IN /\ commits < MaxCommits
       /\ db' = d
       /\ commits' = commits + 1
       /\ products' = [products EXCEPT ![s] = d.products]
       /\ bills' = [bills EXCEPT ![s] = d.bills]
       /\ purchases' = [purchases EXCEPT ![s] = d.purchases]
       /\ companies' = [companies EXCEPT ![s] = d.companies]
       /\ payments' = [payments EXCEPT ![s] = d.payments]
       /\ issued' = issued \cup BillNumbersSet(sent)

\* The committing session's listeners deliver the new documents to its state.
Commit(s, ws, accept) ==
    IF Committed(ws, accept)
    THEN LET d == ApplyWrites(db, ws) IN
         /\ commits < MaxCommits
         /\ db' = d
         /\ commits' = commits + 1
         /\ products' = [products EXCEPT ![s] = d.products]
         /\ bills' = [bills EXCEPT ![s] = d.bills]
         /\ purchases' = [purchases EXCEPT ![s] = d.purchases]
         /\ companies' = [companies EXCEPT ![s] = d.companies]
         /\ payments' = [payments EXCEPT ![s] = d.payments]
         /\ issued' = issued \cup BillNumbersSet(ws)
    ELSE UNCHANGED <<db, products, bills, purchases, companies, payments, issued, commits>>

\* ------------------------------------------------------- bill numbering
Digits == <<"0", "1", "2", "3", "4", "5", "6", "7", "8", "9">>

IsDigit(c) == \E i \in DOMAIN Digits : Digits[i] = c

DigitValue(c) == (CHOOSE i \in DOMAIN Digits : Digits[i] = c) - 1

\* Number.prototype.toString for n >= 0
RECURSIVE NumberToString(_)
NumberToString(n) == IF n < 10 THEN <<Digits[n + 1]>> ELSE NumberToString(n \div 10) \o <<Digits[(n % 10) + 1]>>

\* String.prototype.padStart
RECURSIVE PadStart(_, _, _)
PadStart(str, len, ch) == IF Len(str) >= len THEN str ELSE PadStart(<<ch>> \o str, len, ch)

\* str.replace(/\D/g, '')
ReplaceNonDigits(str) == SelectSeq(str, IsDigit)

\* parseInt(str, 10) of a string holding digits only
RECURSIVE ParseInt(_)
ParseInt(str) ==
    IF str = <<>> THEN NaN
    ELSE IF Len(str) = 1 THEN DigitValue(str[1])
    ELSE ParseInt(SubSeq(str, 1, Len(str) - 1)) * 10 + DigitValue(str[Len(str)])

\* allBillsSnapshot.forEach(...): the running maximum over the documents read
\* The number of bills, in place of the largest number in use
CountBillNum(docs, maxBillNum) == Cardinality(DOMAIN docs)

RECURSIVE MaxBillNum(_, _)
MaxBillNum(docs, maxBillNum) ==
    IF DOMAIN docs = {} THEN maxBillNum
    ELSE LET id == CHOOSE k \in DOMAIN docs : TRUE
             num == ParseInt(ReplaceNonDigits(docs[id].billNumber))
         IN MaxBillNum(Remove(docs, id),
                       IF num # NaN /\ num > maxBillNum THEN num ELSE maxBillNum)

NewBillNumber(docs) == <<"B">> \o PadStart(NumberToString(MaxBillNum(docs, 0) + 1), 4, "0")

\* ------------------------------------------------------- company names
\* A name is a sequence of one-character strings.
\* String.prototype.toLowerCase, on the letters the names here are made of
LowerOf(c) ==
    CASE c = "A" -> "a"
      [] c = "B" -> "b"
      [] c = "Z" -> "z"
      [] OTHER -> c

ToLowerCase(str) == [i \in DOMAIN str |-> LowerOf(str[i])]

RECURSIVE TrimStart(_)
TrimStart(str) ==
    IF str # <<>> /\ Head(str) = " " THEN TrimStart(Tail(str)) ELSE str

RECURSIVE TrimEnd(_)
TrimEnd(str) ==
    IF str # <<>> /\ str[Len(str)] = " " THEN TrimEnd(SubSeq(str, 1, Len(str) - 1)) ELSE str

\* String.prototype.trim
Trim(str) == TrimEnd(TrimStart(str))

\* companies.some(c => c.name.toLowerCase() === companyName.toLowerCase())
CompanyExists(comps, companyName) ==
    \E c \in DOMAIN comps : ToLowerCase(comps[c].name) = ToLowerCase(companyName)

\* handleAddPurchase's newCompanies: a Set of strings, kept in insertion
\* order, of the trimmed names of the new-product lines that match no company
RECURSIVE NewCompanies(_, _, _)
NewCompanies(comps, items, found) ==
    IF items = <<>> THEN found
    ELSE LET item == Head(items)
             companyName == Trim(item.company)
         IN NewCompanies(comps, Tail(items),
                IF item.isNewProduct /\ companyName # <<>>
                   /\ ~CompanyExists(comps, companyName)
                   /\ \A i \in DOMAIN found : found[i] # companyName
                THEN Append(found, companyName)
                ELSE found)

\* for (const companyName of newCompanies) fbBatch.set(doc(collection), { name })
CompanyWrites(names, firstId) ==
    [i \in DOMAIN names |->
        [op |-> "set", coll |-> "companies", id |-> firstId + i - 1,
         data |-> [name |-> names[i]]]]

\* ------------------------------------------------- numbers of the bill
\* The amounts of a bill are JavaScript numbers: binary floating point, every
\* division, addition and subtraction rounded to the nearest representable
\* value, ties to even.  A number is m * 2^e with m = 0 or
\* 2^(MantissaBits-1) <= m < 2^MantissaBits; the mantissa is kept short
\* enough for the intermediate products of a division to be machine integers.
\* The amounts of the model are not negative.
MantissaBits == 12

RECURSIVE Power2(_)
Power2(n) == IF n = 0 THEN 1 ELSE 2 * Power2(n - 1)

PowersOf2 == [n \in 0..30 |-> Power2(n)]

Pow2(n) == PowersOf2[n]

Zero == [m |-> 0, e |-> 0]

\* n * 2^e rounded with the last `shift' bits of n cut off: up when they and
\* the sticky part are above one half, or are one half and the kept part is odd
RoundAt(n, e, sticky, shift) ==
    IF n % Pow2(shift) > Pow2(shift - 1)
       \/ (n % Pow2(shift) = Pow2(shift - 1) /\ (sticky \/ (n \div Pow2(shift)) % 2 = 1))
    THEN IF (n \div Pow2(shift)) + 1 = Pow2(MantissaBits)
         THEN [m |-> Pow2(MantissaBits - 1), e |-> e + shift + 1]
         ELSE [m |-> (n \div Pow2(shift)) + 1, e |-> e + shift]
    ELSE [m |-> n \div Pow2(shift), e |-> e + shift]

\* The number of bits n has above MantissaBits
ExcessBits(n) ==
    CHOOSE k \in 1..30 : /\ n \div Pow2(k) < Pow2(MantissaBits)
                         /\ n \div Pow2(k - 1) >= Pow2(MantissaBits)

\* The number nearest to (n + f) * 2^e, where 0 < f < 1 if sticky and f = 0 if not
RECURSIVE RoundToFloat(_, _, _)
RoundToFloat(n, e, sticky) ==
    IF n = 0 THEN Zero
    ELSE IF n < Pow2(MantissaBits - 1) THEN RoundToFloat(2 * n, e - 1, sticky)
    ELSE IF n < Pow2(MantissaBits) THEN [m |-> n, e |-> e]
    ELSE RoundAt(n, e, sticky, ExcessBits(n))

\* An integer amount (a price in whole rupees, a quantity, a rate) as a number
FromInt(n) == RoundToFloat(n, 0, FALSE)

\* hi + lo, for hi.e >= lo.e and neither zero
AddAligned(hi, lo) ==
    IF hi.e - lo.e > MantissaBits + 2
    THEN RoundToFloat(4 * hi.m, hi.e - 2, TRUE)
    ELSE RoundToFloat(hi.m * Pow2(hi.e - lo.e) + lo.m, lo.e, FALSE)

\* a + b
FAdd(a, b) ==
    IF a.m = 0 THEN b
    ELSE IF b.m = 0 THEN a
    ELSE IF a.e >= b.e THEN AddAligned(a, b)
    ELSE AddAligned(b, a)

\* a - b, for a >= b
FSub(a, b) ==
    IF b.m = 0 THEN a
    ELSE IF a.e - b.e > MantissaBits + 2
    THEN RoundToFloat(4 * a.m - 1, a.e - 2, TRUE)
    ELSE IF a.e >= b.e
    THEN RoundToFloat(a.m * Pow2(a.e - b.e) - b.m, b.e, FALSE)
    ELSE RoundToFloat(a.m - b.m * Pow2(b.e - a.e), a.e, FALSE)

\* a / b, for b > 0: the quotient to MantissaBits + 2 bits and whether a
\* remainder is left decide the rounding
FDiv(a, b) ==
    IF a.m = 0 THEN Zero
    ELSE RoundToFloat((a.m * Pow2(MantissaBits + 2)) \div b.m,
                      a.e - b.e - (MantissaBits + 2),
                      (a.m * Pow2(MantissaBits + 2)) % b.m # 0)

\* ------------------------------------------------------------ the cart
\* batches.map(b => b.id === batchId ? {...b, stock: b.stock + delta} : b)
MapStock(batches, batchId, delta) ==
    [i \in DOMAIN batches |->
        IF batches[i].id = batchId
        THEN [batches[i] EXCEPT !.stock = @ + delta]
        ELSE batches[i]]

\* product?.batches.find(b => b.id === batchId)
FindBatch(prods, productId, batchId) ==
    IF productId \in DOMAIN prods /\ \E i \in DOMAIN prods[productId].batches :
                                          prods[productId].batches[i].id = batchId
    THEN LET bs == prods[productId].batches
             i == CHOOSE j \in DOMAIN bs : bs[j].id = batchId /\ \A k \in 1..(j - 1) : bs[k].id # batchId
         IN bs[i]
    ELSE None

\* updateCartItem without the new total of the row
UpdateCartItemKeepingTotal(prods, c, batchId, quantity) ==
    [i \in DOMAIN c |->
        IF c[i].batchId = batchId
        THEN LET batch == FindBatch(prods, c[i].productId, batchId) IN
             IF batch # None /\ quantity > 0 /\ quantity <= batch.stock
             THEN [c[i] EXCEPT !.quantity = quantity]
             ELSE c[i]
        ELSE c[i]]

\* updateCartItem: { ...item, quantity, total: item.mrp * quantity }
UpdateCartItem(prods, c, batchId, quantity) ==
    [i \in DOMAIN c |->
        IF c[i].batchId = batchId
        THEN LET batch == FindBatch(prods, c[i].productId, batchId) IN
             IF batch # None /\ quantity > 0 /\ quantity <= batch.stock
             THEN [c[i] EXCEPT !.quantity = quantity, !.total = c[i].mrp * quantity]
             ELSE c[i]
        ELSE c[i]]

HandleAddToCart(prods, c, productId, batch) ==
    IF \E i \in DOMAIN c : c[i].productId = productId /\ c[i].batchId = batch.id
    THEN LET i == CHOOSE j \in DOMAIN c : /\ c[j].productId = productId /\ c[j].batchId = batch.id
                                          /\ \A k \in 1..(j - 1) :
                                                ~(c[k].productId = productId /\ c[k].batchId = batch.id)
         IN IF c[i].quantity < batch.stock
            THEN UpdateCartItem(prods, c, c[i].batchId, c[i].quantity + 1)
            ELSE c
    ELSE Append(c, [productId |-> productId, batchId |-> batch.id, quantity |-> 1,
                    mrp |-> batch.mrp, gst |-> prods[productId].gst, total |-> batch.mrp])

RemoveFromCart(c, batchId) == SelectSeq(c, LAMBDA item : item.batchId # batchId)

\* basePrice = total / (1 + gst / 100)
BasePrice(total, gst) == FDiv(total, FAdd(FromInt(1), FDiv(gst, FromInt(100))))

\* subTotal += basePrice; totalGst += item.total - basePrice
AddToTotals(acc, total, basePrice) ==
    [subTotal |-> FAdd(acc.subTotal, basePrice),
     totalGst |-> FAdd(acc.totalGst, FSub(total, basePrice))]

\* One pass of Billing's cart.forEach
AddItemTotals(acc, item) ==
    AddToTotals(acc, FromInt(item.total), BasePrice(FromInt(item.total), FromInt(item.gst)))

RECURSIVE AddItemsTotals(_, _)
AddItemsTotals(acc, items) ==
    IF items = <<>> THEN acc
    ELSE AddItemsTotals(AddItemTotals(acc, Head(items)), Tail(items))

\* const grandTotal = subTotal + totalGst; return { subTotal, totalGst, grandTotal }
WithGrandTotal(t) ==
    [subTotal |-> t.subTotal, totalGst |-> t.totalGst,
     grandTotal |-> FAdd(t.subTotal, t.totalGst)]

\* Billing's useMemo over the cart
BillingTotals(c) == WithGrandTotal(AddItemsTotals([subTotal |-> Zero, totalGst |-> Zero], c))

\* handleSaveBill's billData
BillData(billNumber, date, c) ==
    [billNumber |-> billNumber, date |-> date, items |-> c] @@ BillingTotals(c)

\* ------------------------------------------------------- bill handlers
\* handleGenerateBill's loop over billData.items
RECURSIVE GenerateBillItemWrites(_, _)
GenerateBillItemWrites(prods, items) ==
    IF items = <<>> THEN <<>>
    ELSE LET item == Head(items) IN
         (IF item.productId \in DOMAIN prods
          THEN <<[op |-> "update", coll |-> "products", id |-> item.productId,
                  data |-> [batches |-> MapStock(prods[item.productId].batches,
                                                 item.batchId, 0 - item.quantity)]]>>
          ELSE <<>>)
         \o GenerateBillItemWrites(prods, Tail(items))

\* handleGenerateBill storing the bill only
GenerateBillWritesBillOnly(prods, newId, newBill) ==
    <<[op |-> "set", coll |-> "bills", id |-> newId, data |-> newBill]>>

GenerateBillWrites(prods, newId, newBill) ==
    <<[op |-> "set", coll |-> "bills", id |-> newId, data |-> newBill]>>
    \o GenerateBillItemWrites(prods, newBill.items)

\* addChange: stockChanges is a Map keyed by batchId, in insertion order
AddChange(stockChanges, item, sign) ==
    IF \E i \in DOMAIN stockChanges : stockChanges[i].batchId = item.batchId
    THEN [i \in DOMAIN stockChanges |->
            IF stockChanges[i].batchId = item.batchId
            THEN [stockChanges[i] EXCEPT !.change = @ + item.quantity * sign]
            ELSE stockChanges[i]]
    ELSE Append(stockChanges, [batchId |-> item.batchId, productId |-> item.productId,
                               change |-> item.quantity * sign])

RECURSIVE AddChanges(_, _, _)
AddChanges(stockChanges, items, sign) ==
    IF items = <<>> THEN stockChanges
    ELSE AddChanges(AddChange(stockChanges, Head(items), sign), Tail(items), sign)

StockChanges(originalItems, updatedItems) ==
    AddChanges(AddChanges(<<>>, originalItems, 1), updatedItems, -1)

\* The loop without its check of newBatches.some(b => b.stock < 0)
RECURSIVE UncheckedChangeWrites(_, _)
UncheckedChangeWrites(prods, stockChanges) ==
    IF stockChanges = <<>> THEN [fatal |-> FALSE, writes |-> <<>>]
    ELSE LET e == Head(stockChanges)
             rest == UncheckedChangeWrites(prods, Tail(stockChanges))
         IN IF e.change = 0 THEN rest
            ELSE IF e.productId \notin DOMAIN prods THEN [fatal |-> TRUE, writes |-> <<>>]
            ELSE IF rest.fatal THEN rest
            ELSE [fatal |-> FALSE,
                  writes |-> <<[op |-> "update", coll |-> "products", id |-> e.productId,
                                data |-> [batches |-> MapStock(prods[e.productId].batches,
                                                               e.batchId, e.change)]]>>
                             \o rest.writes]

\* handleUpdateBill's loop over stockChanges.entries(): the writes it queues,
\* or fatal when it returns null before the commit
RECURSIVE UpdateBillChangeWrites(_, _)
UpdateBillChangeWrites(prods, stockChanges) ==
    IF stockChanges = <<>> THEN [fatal |-> FALSE, writes |-> <<>>]
    ELSE LET e == Head(stockChanges)
             rest == UpdateBillChangeWrites(prods, Tail(stockChanges))
         IN IF e.change = 0 THEN rest
            ELSE IF e.productId \notin DOMAIN prods THEN [fatal |-> TRUE, writes |-> <<>>]
            ELSE LET newBatches == MapStock(prods[e.productId].batches, e.batchId, e.change) IN
                 IF \E i \in DOMAIN newBatches : newBatches[i].stock < 0
                 THEN [fatal |-> TRUE, writes |-> <<>>]
                 ELSE IF rest.fatal THEN rest
                 ELSE [fatal |-> FALSE,
                       writes |-> <<[op |-> "update", coll |-> "products", id |-> e.productId,
                                     data |-> [batches |-> newBatches]]>> \o rest.writes]

\* The bill written with set in place of update
HandleUpdateBillBySet(prods, billId, updatedBillData, originalBill) ==
    LET r == UpdateBillChangeWrites(prods, StockChanges(originalBill.items, updatedBillData.items)) IN
    IF r.fatal THEN r
    ELSE [fatal |-> FALSE,
          writes |-> r.writes \o <<[op |-> "set", coll |-> "bills", id |-> billId,
                                    data |-> updatedBillData]>>]

\* handleUpdateBill storing the bill under a later date
HandleUpdateBillRedated(prods, billId, updatedBillData, originalBill) ==
    LET r == UpdateBillChangeWrites(prods, StockChanges(originalBill.items, updatedBillData.items)) IN
    IF r.fatal THEN r
    ELSE [fatal |-> FALSE,
          writes |-> r.writes \o <<[op |-> "update", coll |-> "bills", id |-> billId,
                                    data |-> [updatedBillData EXCEPT !.date = @ + 1]]>>]

HandleUpdateBill(prods, billId, updatedBillData, originalBill) ==
    LET r == UpdateBillChangeWrites(prods, StockChanges(originalBill.items, updatedBillData.items)) IN
    IF r.fatal THEN r
    ELSE [fatal |-> FALSE,
          writes |-> r.writes \o <<[op |-> "update", coll |-> "bills", id |-> billId,
                                    data |-> updatedBillData]>>]

\* A delete that gives the quantity back to every batch of the item's product
RECURSIVE RestoreAllBatchesWrites(_, _)
RestoreAllBatchesWrites(prods, items) ==
    IF items = <<>> THEN <<>>
    ELSE LET item == Head(items) IN
         (IF item.productId \in DOMAIN prods
          THEN <<[op |-> "update", coll |-> "products", id |-> item.productId,
                  data |-> [batches |->
                      [i \in DOMAIN prods[item.productId].batches |->
                          [prods[item.productId].batches[i] EXCEPT
                              !.stock = @ + item.quantity]]]]>>
          ELSE <<>>)
         \o RestoreAllBatchesWrites(prods, Tail(items))

\* handleDeleteBill's loop over bill.items, then the delete of the bill
RECURSIVE DeleteBillItemWrites(_, _)
DeleteBillItemWrites(prods, items) ==
    IF items = <<>> THEN <<>>
    ELSE LET item == Head(items) IN
         (IF item.productId \in DOMAIN prods
          THEN <<[op |-> "update", coll |-> "products", id |-> item.productId,
                  data |-> [batches |-> MapStock(prods[item.productId].batches,
                                                 item.batchId, item.quantity)]]>>
          ELSE <<>>)
         \o DeleteBillItemWrites(prods, Tail(items))

HandleDeleteBill(prods, billId, bill) ==
    DeleteBillItemWrites(prods, bill.items)
    \o <<[op |-> "delete", coll |-> "bills", id |-> billId, data |-> None]>>

\* --------------------------------------------------- purchase handlers
\* batches.findIndex(pred), 1-based; 0 when there is none
FindIndexById(batches, id) ==
    IF \E i \in DOMAIN batches : batches[i].id = id
    THEN CHOOSE i \in DOMAIN batches :
            batches[i].id = id /\ \A k \in 1..(i - 1) : batches[k].id # id
    ELSE 0

FindIndexByNumber(batches, batchNumber) ==
    IF \E i \in DOMAIN batches : batches[i].batchNumber = batchNumber
    THEN CHOOSE i \in DOMAIN batches :
            /\ batches[i].batchNumber = batchNumber
            /\ \A k \in 1..(i - 1) : batches[k].batchNumber # batchNumber
    ELSE 0

NewBatchData(newBatchId, item) ==
    [id |-> newBatchId, batchNumber |-> item.batchNumber, expiryDate |-> item.expiryDate,
     stock |-> item.quantity, mrp |-> item.mrp, purchasePrice |-> item.purchasePrice]

\* { ...b, stock: b.stock + item.quantity, mrp, purchasePrice, expiryDate }
RestockBatch(b, item) ==
    [b EXCEPT !.stock = @ + item.quantity, !.mrp = item.mrp,
              !.purchasePrice = item.purchasePrice, !.expiryDate = item.expiryDate]

\* finalItem with the ids, its isNewProduct flag left as the form set it
ResolvedKeepingFlag(item, productId, batchId) ==
    [item EXCEPT !.productId = productId, !.batchId = batchId]

Resolved(item, productId, batchId) ==
    [item EXCEPT !.productId = productId, !.batchId = batchId, !.isNewProduct = FALSE]

\* One pass of handleAddPurchase's loop over purchaseData.items.  acc holds
\* the writes queued, itemsWithIds and the next auto-generated document id;
\* newBatchId is batch_${uniqueIdSuffix()} for this line.
AddPurchaseLine(prods, acc, item, newBatchId) ==
    IF item.isNewProduct
    THEN [writes |-> Append(acc.writes,
                        [op |-> "set", coll |-> "products", id |-> acc.next,
                         data |-> [company |-> item.company, gst |-> item.gst,
                                   batches |-> <<NewBatchData(newBatchId, item)>>]]),
          items |-> Append(acc.items, Resolved(item, acc.next, newBatchId)),
          next |-> acc.next + 1]
    ELSE IF item.productId # NoId
    THEN IF item.productId \notin DOMAIN prods
         THEN acc
         ELSE LET batches == prods[item.productId].batches
                  i == FindIndexByNumber(batches, item.batchNumber)
              IN IF i > 0
                 THEN [acc EXCEPT
                         !.writes = Append(@,
                            [op |-> "update", coll |-> "products", id |-> item.productId,
                             data |-> [batches |->
                                [k \in DOMAIN batches |->
                                    IF batches[k].id = batches[i].id
                                    THEN RestockBatch(batches[k], item)
                                    ELSE batches[k]]]]),
                         !.items = Append(@, [item EXCEPT !.batchId = batches[i].id])]
                 ELSE [acc EXCEPT
                         !.writes = Append(@,
                            [op |-> "arrayUnion", coll |-> "products", id |-> item.productId,
                             data |-> NewBatchData(newBatchId, item)]),
                         !.items = Append(@, [item EXCEPT !.batchId = newBatchId])]
    ELSE [acc EXCEPT !.items = Append(@, item)]

RECURSIVE AddPurchaseLines(_, _, _, _)
AddPurchaseLines(prods, acc, items, newBatchIds) ==
    IF items = <<>> THEN acc
    ELSE AddPurchaseLines(prods, AddPurchaseLine(prods, acc, Head(items), Head(newBatchIds)),
                          Tail(items), Tail(newBatchIds))

\* handleAddPurchase: the writes, and the id of the purchase document
HandleAddPurchase(prods, comps, items, newBatchIds, firstId) ==
    LET cs == CompanyWrites(NewCompanies(comps, items, <<>>), firstId)
        acc == AddPurchaseLines(prods, [writes |-> cs, items |-> <<>>,
                                        next |-> firstId + Len(cs)],
                                items, newBatchIds)
    IN [writes |-> Append(acc.writes,
                      [op |-> "set", coll |-> "purchases", id |-> acc.next,
                       data |-> [items |-> acc.items]]),
        id |-> acc.next,
        next |-> acc.next + 1]

\* getMutableProduct: productsToUpdate with the product's copy added when the
\* product is known
GetMutableProduct(prods, productsToUpdate, productId) ==
    IF productId \in DOMAIN productsToUpdate THEN productsToUpdate
    ELSE IF productId \in DOMAIN prods THEN Put(productsToUpdate, productId, prods[productId])
    ELSE productsToUpdate

\* handleDeletePurchase's map over product.batches
ClampedSubtract(batches, batchId, quantity) ==
    [i \in DOMAIN batches |->
        IF batches[i].id = batchId
        THEN LET newStock == batches[i].stock - quantity IN
             [batches[i] EXCEPT !.stock = IF newStock < 0 THEN 0 ELSE newStock]
        ELSE batches[i]]

\* A revert that stops at 0, as handleDeletePurchase's subtraction does
RevertLineClamped(prods, productsToUpdate, item) ==
    IF item.productId = NoId \/ item.batchId = NoBatch THEN productsToUpdate
    ELSE LET m == GetMutableProduct(prods, productsToUpdate, item.productId) IN
         IF item.productId \notin DOMAIN m THEN m
         ELSE [m EXCEPT ![item.productId].batches =
                           ClampedSubtract(@, item.batchId, item.quantity)]

\* 1. REVERT STAGE, one original item
RevertLine(prods, productsToUpdate, item) ==
    IF item.productId = NoId \/ item.batchId = NoBatch THEN productsToUpdate
    ELSE LET m == GetMutableProduct(prods, productsToUpdate, item.productId) IN
         IF item.productId \notin DOMAIN m THEN m
         ELSE LET i == FindIndexById(m[item.productId].batches, item.batchId) IN
              IF i > 0
              THEN [m EXCEPT ![item.productId].batches[i].stock = @ - item.quantity]
              ELSE m

RECURSIVE RevertLines(_, _, _)
RevertLines(prods, productsToUpdate, items) ==
    IF items = <<>> THEN productsToUpdate
    ELSE RevertLines(prods, RevertLine(prods, productsToUpdate, Head(items)), Tail(items))

\* 2. APPLY STAGE, one updated item.  acc holds productsToUpdate (map), the
\* writes queued for new products, updatedItemsWithIds and the next document id.
ApplyLine(prods, acc, item, newBatchId) ==
    IF item.isNewProduct
    THEN [acc EXCEPT
            !.writes = Append(@,
                [op |-> "set", coll |-> "products", id |-> acc.next,
                 data |-> [company |-> item.company, gst |-> item.gst,
                           batches |-> <<NewBatchData(newBatchId, item)>>]]),
            !.items = Append(@, Resolved(item, acc.next, newBatchId)),
            !.next = @ + 1]
    ELSE IF item.productId # NoId
    THEN LET m == GetMutableProduct(prods, acc.map, item.productId) IN
         IF item.productId \notin DOMAIN m THEN acc
         ELSE LET i == FindIndexByNumber(m[item.productId].batches, item.batchNumber) IN
              IF i > 0
              THEN [acc EXCEPT
                      !.map = [m EXCEPT ![item.productId].batches[i] = RestockBatch(@, item)],
                      !.items = Append(@, [item EXCEPT !.batchId = m[item.productId].batches[i].id])]
              ELSE [acc EXCEPT
                      !.map = [m EXCEPT ![item.productId].batches =
                                            Append(@, NewBatchData(newBatchId, item))],
                      !.items = Append(@, [item EXCEPT !.batchId = newBatchId])]
    ELSE [acc EXCEPT !.items = Append(@, item)]

RECURSIVE ApplyLines(_, _, _, _)
ApplyLines(prods, acc, items, newBatchIds) ==
    IF items = <<>> THEN acc
    ELSE ApplyLines(prods, ApplyLine(prods, acc, Head(items), Head(newBatchIds)),
                    Tail(items), Tail(newBatchIds))

\* product.batches.forEach(b => { if (b.stock < 0) b.stock = 0; })
ClampBatches(batches) ==
    [i \in DOMAIN batches |->
        IF batches[i].stock < 0 THEN [batches[i] EXCEPT !.stock = 0] ELSE batches[i]]

\* 3. COMMIT STAGE: one update per product of productsToUpdate
RECURSIVE CommitStageWrites(_)
CommitStageWrites(productsToUpdate) ==
    IF DOMAIN productsToUpdate = {} THEN <<>>
    ELSE LET productId == CHOOSE k \in DOMAIN productsToUpdate : TRUE IN
         <<[op |-> "update", coll |-> "products", id |-> productId,
            data |-> [batches |-> ClampBatches(productsToUpdate[productId].batches)]]>>
         \o CommitStageWrites(Remove(productsToUpdate, productId))

HandleUpdatePurchase(prods, purchaseId, updatedItems, originalPurchase, newBatchIds, firstId) ==
    LET reverted == RevertLines(prods, <<>>, originalPurchase.items)
        acc == ApplyLines(prods, [map |-> reverted, writes |-> <<>>, items |-> <<>>,
                                  next |-> firstId], updatedItems, newBatchIds)
    IN [writes |-> acc.writes \o CommitStageWrites(acc.map)
                   \o <<[op |-> "update", coll |-> "purchases", id |-> purchaseId,
                         data |-> [items |-> acc.items]]>>,
        next |-> acc.next]

RECURSIVE DeletePurchaseItemWrites(_, _)
DeletePurchaseItemWrites(prods, items) ==
    IF items = <<>> THEN <<>>
    ELSE LET item == Head(items) IN
         (IF item.productId = NoId \/ item.batchId = NoBatch THEN <<>>
          ELSE IF item.productId \notin DOMAIN prods THEN <<>>
          ELSE <<[op |-> "update", coll |-> "products", id |-> item.productId,
                  data |-> [batches |-> ClampedSubtract(prods[item.productId].batches,
                                                        item.batchId, item.quantity)]]>>)
         \o DeletePurchaseItemWrites(prods, Tail(items))

HandleDeletePurchase(prods, purchaseId, purchase) ==
    DeletePurchaseItemWrites(prods, purchase.items)
    \o <<[op |-> "delete", coll |-> "purchases", id |-> purchaseId, data |-> None]>>

\* ------------------------------------------------------------- actions
\* A session starts no other handler while its generateBill call is suspended.
Idle(s) == pending[s] = None

BillOf(docs, id) == [id |-> id] @@ docs[id]

Outcome(op, s, ok, id) ==
    [op |-> op, s |-> s, ok |-> ok, id |-> id, pre |-> None, arg |-> <<>>]

\* Billing: a click on a batch of the search list (batches in stock only)
AddToCart(s) ==
    /\ Idle(s)
    /\ \E productId \in DOMAIN products[s] :
         \E i \in DOMAIN products[s][productId].batches :
            LET batch == products[s][productId].batches[i] IN
            /\ batch.stock > 0
            /\ cart' = [cart EXCEPT ![s] = HandleAddToCart(products[s], cart[s], productId, batch)]
    /\ UNCHANGED <<db, products, bills, purchases, companies, payments, issued, editingBill, editingPurchase,
                   pending, printing, nextId, now, commits, last>>

\* Billing: the quantity input of a cart row
ChangeCartItem(s) ==
    /\ Idle(s)
    /\ \E i \in DOMAIN cart[s] : \E quantity \in {0} \cup Stocks \cup Quantities :
         cart' = [cart EXCEPT ![s] = UpdateCartItem(products[s], cart[s], cart[s][i].batchId, quantity)]
    /\ UNCHANGED <<db, products, bills, purchases, companies, payments, issued, editingBill, editingPurchase,
                   pending, printing, nextId, now, commits, last>>

\* Billing: the remove button of a cart row
RemoveCartItem(s) ==
    /\ Idle(s)
    /\ \E i \in DOMAIN cart[s] :
         cart' = [cart EXCEPT ![s] = RemoveFromCart(cart[s], cart[s][i].batchId)]
    /\ UNCHANGED <<db, products, bills, purchases, companies, payments, issued, editingBill, editingPurchase,
                   pending, printing, nextId, now, commits, last>>

\* handleSaveBill (new bill) -> handleGenerateBill up to its await getDocs:
\* the bill list is read from the store; billData (the cart) and the products
\* state are the ones of the render that made the call.
GenerateBillRead(s) ==
    /\ Idle(s)
    /\ editingBill[s] = None
    /\ cart[s] # <<>>
    /\ commits < MaxCommits
    /\ pending' = [pending EXCEPT ![s] =
                      [bill |-> BillData(NewBillNumber(db.bills), now, cart[s]),
                       products |-> products[s]]]
    /\ UNCHANGED <<db, products, bills, purchases, companies, payments, issued, cart, editingBill, editingPurchase,
                   printing, nextId, now, commits, last>>

\* handleGenerateBill from doc(billsCollectionRef) on (the new document's id is
\* named by the order of creation), then handleSaveBill's executePrint
GenerateBillCommit(s) ==
    /\ pending[s] # None
    /\ \E accept \in BOOLEAN :
         LET ws == GenerateBillWrites(pending[s].products, nextId, pending[s].bill)
             ok == Committed(ws, accept)
         IN /\ Commit(s, ws, accept)
            /\ last' = [Outcome("generateBill", s, ok, nextId) EXCEPT
                           !.pre = IF ok THEN db.products ELSE None]
            /\ printing' = [printing EXCEPT ![s] = IF ok THEN "new" ELSE @]
            /\ nextId' = IF ok THEN nextId + 1 ELSE nextId
    /\ pending' = [pending EXCEPT ![s] = None]
    /\ UNCHANGED <<cart, editingBill, editingPurchase, now>>

\* executePrint's callback: the cart is cleared after a new bill, the edit
\* session is closed (onCancelEdit) after an edit
PrintClosed(s) ==
    /\ Idle(s)
    /\ printing[s] # "none"
    /\ printing' = [printing EXCEPT ![s] = "none"]
    /\ cart' = [cart EXCEPT ![s] = <<>>]
    /\ editingBill' = [editingBill EXCEPT ![s] = IF printing[s] = "edit" THEN None ELSE @]
    /\ UNCHANGED <<db, products, bills, purchases, companies, payments, issued, editingPurchase, pending, nextId, now, commits, last>>

\* DayBook: the edit button; Billing's effect loads the bill's items into the cart
EditBill(s) ==
    /\ Idle(s)
    /\ \E id \in DOMAIN bills[s] :
         /\ editingBill' = [editingBill EXCEPT ![s] = BillOf(bills[s], id)]
         /\ cart' = [cart EXCEPT ![s] = bills[s][id].items]
    /\ UNCHANGED <<db, products, bills, purchases, companies, payments, issued, editingPurchase, pending, printing,
                   nextId, now, commits, last>>

CancelEdit(s) ==
    /\ Idle(s)
    /\ editingBill[s] # None
    /\ editingBill' = [editingBill EXCEPT ![s] = None]
    /\ cart' = [cart EXCEPT ![s] = <<>>]
    /\ UNCHANGED <<db, products, bills, purchases, companies, payments, issued, editingPurchase, pending, printing,
                   nextId, now, commits, last>>

\* handleSaveBill (edit) -> handleUpdateBill
UpdateBill(s) ==
    /\ Idle(s)
    /\ editingBill[s] # None
    /\ cart[s] # <<>>
    /\ \E billData \in {BillData(editingBill[s].billNumber, editingBill[s].date, cart[s])} :
       LET r == HandleUpdateBill(products[s], editingBill[s].id, billData, editingBill[s])
       IN \E accept \in BOOLEAN :
            LET ok == ~r.fatal /\ Committed(r.writes, accept) IN
            /\ IF r.fatal
               THEN UNCHANGED <<db, products, bills, purchases, companies, payments, issued, commits>>
               ELSE Commit(s, r.writes, accept)
            /\ last' = Outcome("updateBill", s, ok, editingBill[s].id)
            /\ printing' = [printing EXCEPT ![s] = IF ok THEN "edit" ELSE @]
    /\ UNCHANGED <<cart, editingBill, editingPurchase, pending, nextId, now>>

\* DayBook: the delete button -> handleDeleteBill (the confirm dialog accepted).
\* DayBook is another view than Billing: the cart is the one Billing shows
\* when it is mounted again.
DeleteBill(s) ==
    /\ Idle(s)
    /\ \E id \in DOMAIN bills[s] : \E accept \in BOOLEAN :
         LET ws == HandleDeleteBill(products[s], id, bills[s][id])
             ok == Committed(ws, accept)
         IN /\ Commit(s, ws, accept)
            /\ last' = IF ok /\ last.op = "generateBill" /\ last.ok /\ last.id = id
                       THEN [Outcome("deleteBill", s, ok, id) EXCEPT
                               !.pre = last.pre, !.arg = db.products]
                       ELSE Outcome("deleteBill", s, ok, id)
    /\ cart' = [cart EXCEPT ![s] = IF editingBill[s] # None THEN editingBill[s].items ELSE <<>>]
    /\ UNCHANGED <<editingBill, editingPurchase, pending, printing, nextId, now>>

\* ---- purchases
\* What AddItemForm.handleAddItem puts on the line list
\* The company of the catalogue's products, known to the store from the start
DefaultCompany == <<"A", "b">>

Line(isNewProduct, productId, batchNumber, quantity) ==
    [isNewProduct |-> isNewProduct, productId |-> productId, batchId |-> NoBatch,
     batchNumber |-> batchNumber, expiryDate |-> "2031-06", quantity |-> quantity,
     mrp |-> 12, purchasePrice |-> 9, gst |-> 12, company |-> DefaultCompany]

\* The lines the form can make: a new product, or a product selected from the
\* list, with any batch number and quantity
PurchaseLines(prods) ==
    {Line(TRUE, NoId, "X", 1)}
    \cup {Line(FALSE, p, bn, q) : p \in DOMAIN prods, bn \in BatchNumbers, q \in Quantities}

ItemLists(S) == UNION {[1..n -> S] : n \in 1..MaxLines}

\* The items of the list whose positions are in I (handleRemoveItem removed the others)
RECURSIVE Kept(_, _)
Kept(items, I) ==
    IF items = <<>> THEN <<>>
    ELSE Kept(SubSeq(items, 1, Len(items) - 1), I)
         \o (IF Len(items) \in I THEN <<items[Len(items)]>> ELSE <<>>)

\* The line lists an edit can save: lines of the purchase kept, lines added
EditedLists(original, S) ==
    {l \in {Kept(original, I) \o a : I \in SUBSET DOMAIN original,
                                     a \in {<<>>} \cup ItemLists(S)} :
        Len(l) \in 1..MaxLines}

\* The random strings drawn for n lines.  Only their being equal or not
\* matters, so the first is drawn as the least value.
RandomDraws(n) ==
    {rs \in [1..n -> Randoms] : \A r \in Randoms : rs[1] <= r}

\* batch_${uniqueIdSuffix()} for each line: the clock's value and a random string
NewBatchIds(n, rs) == [i \in 1..n |-> <<now, rs[i]>>]

\* The view shown is not Billing: Billing starts from the bill in edit, or
\* from an empty cart, when it is shown again.
LeaveBilling(s) ==
    cart' = [cart EXCEPT ![s] = IF editingBill[s] # None THEN editingBill[s].items ELSE <<>>]

\* handleSavePurchase (no purchase in edit) -> handleAddPurchase.  The commit
\* is rejected as a whole (the store refuses it, or a write names a missing
\* document) or applied as a whole.
AddPurchaseOf(s, S) ==
    /\ Idle(s)
    /\ editingPurchase[s] = None
    /\ \/ /\ commits < MaxCommits
          /\ \E items \in ItemLists(S) :
             \E rs \in RandomDraws(Len(items)) :
               LET r == HandleAddPurchase(products[s], companies[s], items,
                                          NewBatchIds(Len(items), rs), nextId)
               IN /\ Committed(r.writes, TRUE)
                  /\ Commit(s, r.writes, TRUE)
                  /\ last' = [Outcome("addPurchase", s, TRUE, r.id) EXCEPT
                                 !.pre = db.products, !.arg = items]
                  /\ nextId' = r.next
                  /\ now' = now + 1
       \/ /\ Commit(s, <<>>, FALSE)
          /\ last' = Outcome("addPurchase", s, FALSE, NoId)
          /\ UNCHANGED <<nextId, now>>
    /\ LeaveBilling(s)
    /\ UNCHANGED <<editingBill, editingPurchase, pending, printing>>

AddPurchase(s) == AddPurchaseOf(s, PurchaseLines(products[s]))

\* The history list's edit button: setEditingPurchase(p)
StartEditPurchase(s) ==
    /\ Idle(s)
    /\ editingPurchase[s] = None
    /\ \E id \in DOMAIN purchases[s] :
         editingPurchase' = [editingPurchase EXCEPT ![s] =
                                [id |-> id, items |-> purchases[s][id].items]]
    /\ LeaveBilling(s)
    /\ UNCHANGED <<db, products, bills, purchases, companies, payments, issued, editingBill, pending, printing,
                   nextId, now, commits, last>>

\* resetForm, from the cancel button
CancelEditPurchase(s) ==
    /\ Idle(s)
    /\ editingPurchase[s] # None
    /\ editingPurchase' = [editingPurchase EXCEPT ![s] = None]
    /\ UNCHANGED <<db, products, bills, purchases, companies, payments, issued, cart, editingBill, pending, printing,
                   nextId, now, commits, last>>

\* handleSavePurchase (a purchase in edit) -> handleUpdatePurchase, then resetForm
UpdatePurchaseOf(s, S) ==
    /\ Idle(s)
    /\ editingPurchase[s] # None
    /\ \/ /\ commits < MaxCommits
          /\ \E items \in EditedLists(editingPurchase[s].items, S) :
             \E rs \in RandomDraws(Len(items)) :
               LET r == HandleUpdatePurchase(products[s], editingPurchase[s].id, items,
                                             editingPurchase[s],
                                             NewBatchIds(Len(items), rs), nextId)
               IN /\ Committed(r.writes, TRUE)
                  /\ Commit(s, r.writes, TRUE)
                  /\ last' = [Outcome("updatePurchase", s, TRUE, editingPurchase[s].id) EXCEPT
                                 !.pre = [products |-> products[s],
                                          original |-> editingPurchase[s].items],
                                 !.arg = items]
                  /\ nextId' = r.next
                  /\ now' = now + 1
       \/ /\ Commit(s, <<>>, FALSE)
          /\ last' = Outcome("updatePurchase", s, FALSE, NoId)
          /\ UNCHANGED <<nextId, now>>
    /\ editingPurchase' = [editingPurchase EXCEPT ![s] = None]
    /\ UNCHANGED <<cart, editingBill, pending, printing>>

UpdatePurchase(s) == UpdatePurchaseOf(s, PurchaseLines(products[s]))

\* The history list's delete button -> handleDeletePurchase (confirm accepted)
DeletePurchase(s) ==
    /\ Idle(s)
    /\ \E id \in DOMAIN purchases[s] : \E accept \in BOOLEAN :
         LET ws == HandleDeletePurchase(products[s], id, purchases[s][id])
             ok == Committed(ws, accept)
         IN /\ Commit(s, ws, accept)
            /\ last' = Outcome("deletePurchase", s, ok, IF ok THEN id ELSE NoId)
    /\ LeaveBilling(s)
    /\ UNCHANGED <<editingBill, editingPurchase, pending, printing, nextId, now>>

\* ---- inventory
\* The values Date.now() may return to a call of session s: the clock's next
\* value, or the value the last call read when that was a call of another
\* session (two calls one user makes by hand are apart in time).
ClockReads(s) ==
    {now} \cup (IF last.ok /\ last.s # s /\ last.op \in {"addBatch", "addProduct"}
                THEN {now - 1} ELSE {})

\* AddBatchModal -> handleAddBatch, Date.now() returning t
AddBatchAt(s, t) ==
    /\ Idle(s)
    /\ \E productId \in DOMAIN products[s] : \E batchNumber \in BatchNumbers :
       \E stock \in {0} \cup Stocks : \E accept \in BOOLEAN :
         LET batchData == [batchNumber |-> batchNumber, expiryDate |-> "2030-01",
                           stock |-> stock, mrp |-> 10, purchasePrice |-> 8]
             ws == <<[op |-> "arrayUnion", coll |-> "products", id |-> productId,
                      data |-> Merge(batchData, [id |-> <<t>>])]>>
             ok == Committed(ws, accept)
         IN /\ Commit(s, ws, accept)
            /\ last' = Outcome("addBatch", s, ok, IF ok THEN productId ELSE NoId)
            /\ now' = IF ok /\ t = now THEN now + 1 ELSE now
    /\ LeaveBilling(s)
    /\ UNCHANGED <<editingBill, editingPurchase, pending, printing, nextId>>

AddBatch(s) == AddBatchAt(s, now)

\* AddProductModal -> handleAddProduct
HandleAddProduct(comps, productData, firstBatchData, t, firstId) ==
    LET companyName == Trim(productData.company)
        cs == IF companyName # <<>> /\ ~CompanyExists(comps, companyName)
              THEN CompanyWrites(<<companyName>>, firstId) ELSE <<>>
    IN [writes |-> Append(cs, [op |-> "set", coll |-> "products", id |-> firstId + Len(cs),
                               data |-> productData @@
                                  [batches |-> <<Merge(firstBatchData, [id |-> <<t>>])>>]]),
        id |-> firstId + Len(cs),
        next |-> firstId + Len(cs) + 1]

\* AddProductModal's submit -> handleAddProduct, the company name as typed
AddProductNamed(s, t, company) ==
    /\ Idle(s)
    /\ \E batchNumber \in BatchNumbers : \E stock \in {0} \cup Stocks : \E accept \in BOOLEAN :
         LET firstBatchData == [batchNumber |-> batchNumber, expiryDate |-> "2030-01",
                                stock |-> stock, mrp |-> 10, purchasePrice |-> 8]
             r == HandleAddProduct(companies[s], [company |-> company, gst |-> 12],
                                   firstBatchData, t, nextId)
             ok == Committed(r.writes, accept)
         IN /\ Commit(s, r.writes, accept)
            /\ last' = Outcome("addProduct", s, ok, IF ok THEN r.id ELSE NoId)
            /\ nextId' = IF ok THEN r.next ELSE nextId
            /\ now' = IF ok /\ t = now THEN now + 1 ELSE now
    /\ LeaveBilling(s)
    /\ UNCHANGED <<editingBill, editingPurchase, pending, printing>>

AddProductAt(s, t) == AddProductNamed(s, t, DefaultCompany)

\* handleDeleteBatch: refused when a bill or a purchase of the session's lists
\* has an item with the batch id
DeleteBatch(s) ==
    /\ Idle(s)
    /\ \E productId \in DOMAIN products[s] :
       \E i \in DOMAIN products[s][productId].batches : \E accept \in BOOLEAN :
         LET batchId == products[s][productId].batches[i].id
             isInBill == \E b \in DOMAIN bills[s] :
                            \E k \in DOMAIN bills[s][b].items :
                                bills[s][b].items[k].batchId = batchId
             isInPurchase == \E p \in DOMAIN purchases[s] :
                                \E k \in DOMAIN purchases[s][p].items :
                                    purchases[s][p].items[k].batchId = batchId
             updatedBatches == SelectSeq(products[s][productId].batches,
                                         LAMBDA b : b.id # batchId)
             ws == <<[op |-> "update", coll |-> "products", id |-> productId,
                      data |-> [batches |-> updatedBatches]]>>
             ok == Committed(ws, accept)
         IN /\ ~isInBill
            /\ ~isInPurchase
            /\ Commit(s, ws, accept)
            /\ last' = IF ok
                       THEN [Outcome("deleteBatch", s, ok, productId) EXCEPT !.arg = batchId]
                       ELSE Outcome("deleteBatch", s, ok, NoId)
    /\ LeaveBilling(s)
    /\ UNCHANGED <<editingBill, editingPurchase, pending, printing, nextId, now>>

\* A snapshot listener of session s delivers the store's current documents.
Sync(s) ==
    /\ <<products[s], bills[s], purchases[s], companies[s], payments[s]>>
          # <<db.products, db.bills, db.purchases, db.companies, db.payments>>
    /\ products' = [products EXCEPT ![s] = db.products]
    /\ bills' = [bills EXCEPT ![s] = db.bills]
    /\ purchases' = [purchases EXCEPT ![s] = db.purchases]
    /\ companies' = [companies EXCEPT ![s] = db.companies]
    /\ payments' = [payments EXCEPT ![s] = db.payments]
    /\ UNCHANGED <<db, issued, cart, editingBill, editingPurchase, pending, printing, nextId, now, commits, last>>

\* The listener of one collection delivers its snapshot to session s; the
\* listeners of the other collections have not yet
Snapshot(s, coll) ==
    /\ coll \in {"products", "purchases"}
    /\ IF coll = "products"
       THEN /\ products[s] # db.products
            /\ products' = [products EXCEPT ![s] = db.products]
            /\ UNCHANGED purchases
       ELSE /\ purchases[s] # db.purchases
            /\ purchases' = [purchases EXCEPT ![s] = db.purchases]
            /\ UNCHANGED products
    /\ UNCHANGED <<db, bills, companies, payments, issued, cart, editingBill, editingPurchase,
                   pending, printing, nextId, now, commits, last>>

\* ------------------------------------------------------- specifications
Batch(id, batchNumber, stock) ==
    [id |-> id, batchNumber |-> batchNumber, expiryDate |-> "2030-01", stock |-> stock,
     mrp |-> 10, purchasePrice |-> 8]

\* A product of the catalogue, at the rate the product form proposes
Product(batches) == [company |-> DefaultCompany, gst |-> 12, batches |-> batches]

BillNumberOf(n) == <<"B">> \o PadStart(NumberToString(n), 4, "0")

Catalogue(s1, s2) ==
    (-1 :> Product(<<Batch(<<1>>, "X", s1), Batch(<<2>>, "Y", s2)>>))

Catalogue2(s1, s2, s3) ==
    Catalogue(s1, s2) @@ (-2 :> Product(<<Batch(<<3>>, "X", s3)>>))

\* An earlier bill numbered n, or none when n = 0
EarlierBill(n, items) ==
    IF n = 0 THEN <<>> ELSE (-1 :> BillData(BillNumberOf(n), 1, items))

\* The sessions have loaded the store d; nothing is in progress.  c of the
\* MaxCommits write batches of a run are counted as used.
InitWith(d, c) ==
    /\ db = d @@ [companies |-> (-9 :> [name |-> DefaultCompany]), payments |-> <<>>]
    /\ products = [s \in Sessions |-> d.products]
    /\ bills = [s \in Sessions |-> d.bills]
    /\ purchases = [s \in Sessions |-> d.purchases]
    /\ companies = [s \in Sessions |-> db.companies]
    /\ payments = [s \in Sessions |-> db.payments]
    /\ cart = [s \in Sessions |-> <<>>]
    /\ editingBill = [s \in Sessions |-> None]
    /\ editingPurchase = [s \in Sessions |-> None]
    /\ pending = [s \in Sessions |-> None]
    /\ printing = [s \in Sessions |-> "none"]
    /\ nextId = 1
    /\ now = 3
    /\ commits = c
    /\ last = Outcome("none", 1, FALSE, NoId)
    /\ issued = {d.bills[id].billNumber : id \in DOMAIN d.bills}

Item(productId, batchId, quantity) ==
    [productId |-> productId, batchId |-> batchId, quantity |-> quantity,
     mrp |-> 10, gst |-> 12, total |-> 10 * quantity]

\* Two products, the first with two batches, and no bill yet (documents
\* present at the start have ids below 1).
InitSale ==
    \E s1 \in Stocks :
        InitWith([products |-> Catalogue2(s1, 1, 1), bills |-> <<>>, purchases |-> <<>>], 0)

\* One session: billing and bill delete
NextSale ==
    \/ AddToCart(1)
    \/ ChangeCartItem(1)
    \/ RemoveCartItem(1)
    \/ GenerateBillRead(1)
    \/ GenerateBillCommit(1)
    \/ PrintClosed(1)
    \/ DeleteBill(1)

SpecSale == InitSale /\ [][NextSale]_vars

\* One product with one batch and at most one earlier bill, whose number may
\* be the last one-digit or the last four-digit number.
InitNumber ==
    \E n \in {0, 9, 9999} :
        InitWith([products |-> (-1 :> Product(<<Batch(<<1>>, "X", 2)>>)),
                  bills |-> EarlierBill(n, <<Item(-1, <<1>>, 1)>>),
                  purchases |-> <<>>], 0)

SpecNumber == InitNumber /\ [][NextSale]_vars

\* Two batches, of one product or of two
CatalogueOf(shape, s1, s2) ==
    IF shape = 1
    THEN (-1 :> Product(<<Batch(<<1>>, "X", s1), Batch(<<2>>, "Y", s2)>>))
    ELSE (-1 :> Product(<<Batch(<<1>>, "X", s1)>>))
         @@ (-2 :> Product(<<Batch(<<2>>, "X", s2)>>))

\* The item lists of the bill that is edited: one batch or both
EditedItems(shape) ==
    LET p2 == IF shape = 1 THEN -1 ELSE -2 IN
    {<<Item(-1, <<1>>, q)>> : q \in Stocks}
    \cup {<<Item(-1, <<1>>, q), Item(p2, <<2>>, 1)>> : q \in Stocks}

\* The catalogue with any stock left after one bill was generated
InitEdit ==
    \E shape \in {1, 2} : \E s1 \in {0} \cup Stocks : \E items \in EditedItems(shape) :
        InitWith([products |-> CatalogueOf(shape, s1, 1),
                  bills |-> EarlierBill(1, items),
                  purchases |-> <<>>], 1)

\* One session: the edit of a bill
NextEdit ==
    \/ EditBill(1)
    \/ AddToCart(1)
    \/ ChangeCartItem(1)
    \/ RemoveCartItem(1)
    \/ UpdateBill(1)
    \/ CancelEdit(1)
    \/ PrintClosed(1)

SpecEdit == InitEdit /\ [][NextEdit]_vars

\* One product with one batch that an earlier purchase of 2 units filled;
\* sales have left any stock up to 2.
InitPurchase ==
    \E s1 \in {0} \cup Stocks :
        InitWith([products |-> (-1 :> Product(<<Batch(<<1>>, "X", s1)>>)),
                  bills |-> <<>>,
                  purchases |-> (-1 :> [items |->
                      <<[Line(FALSE, -1, "X", 2) EXCEPT !.batchId = <<1>>]>>])], 1)

\* One session: purchases saved and deleted, batches added and deleted
NextPurchase ==
    \/ AddPurchase(1)
    \/ DeletePurchase(1)
    \/ AddBatch(1)
    \/ DeleteBatch(1)

SpecPurchase == InitPurchase /\ [][NextPurchase]_vars

\* One session: the edit of a purchase
NextRestock ==
    \/ StartEditPurchase(1)
    \/ CancelEditPurchase(1)
    \/ UpdatePurchase(1)

SpecRestock == InitPurchase /\ [][NextRestock]_vars

\* One session: purchases saved and edited
NextIntake ==
    \/ AddPurchase(1)
    \/ StartEditPurchase(1)
    \/ CancelEditPurchase(1)
    \/ UpdatePurchase(1)

SpecIntake == InitPurchase /\ [][NextIntake]_vars

\* One product with one batch, no bill
InitConc ==
    \E s1 \in Stocks :
        InitWith([products |-> (-1 :> Product(<<Batch(<<1>>, "X", s1)>>)),
                  bills |-> <<>>, purchases |-> <<>>], 0)

\* Two sessions of one user: billing, each with its own listeners
NextConc ==
    \E s \in Sessions :
        \/ AddToCart(s)
        \/ GenerateBillRead(s)
        \/ GenerateBillCommit(s)
        \/ PrintClosed(s)
        \/ Sync(s)

SpecConc == InitConc /\ [][NextConc]_vars

\* Two sessions of one user: products and batches added by hand.  Calls of
\* different sessions may read the same clock value.
NextLedger ==
    \E s \in Sessions :
        \/ \E t \in ClockReads(s) : AddProductAt(s, t)
        \/ \E t \in ClockReads(s) : AddBatchAt(s, t)
        \/ Sync(s)

\* One product with one batch; one of the write batches of the run is used
InitLedger ==
    \E s1 \in Stocks :
        InitWith([products |-> (-1 :> Product(<<Batch(<<1>>, "X", s1)>>)),
                  bills |-> <<>>, purchases |-> <<>>], 1)

SpecLedger == InitLedger /\ [][NextLedger]_vars

\* Three batches at prices of 8, 11 and 12 rupees, all at 12 % GST
PricedCatalogue ==
    (-1 :> Product(<<[Batch(<<1>>, "X", 2) EXCEPT !.mrp = 8],
                     [Batch(<<2>>, "Y", 1) EXCEPT !.mrp = 11]>>))
    @@ (-2 :> Product(<<[Batch(<<3>>, "X", 1) EXCEPT !.mrp = 12]>>))

InitTotals ==
    InitWith([products |-> PricedCatalogue, bills |-> <<>>, purchases |-> <<>>], 1)

\* One session: bills are generated and edited
NextTotals ==
    \/ AddToCart(1)
    \/ ChangeCartItem(1)
    \/ RemoveCartItem(1)
    \/ GenerateBillRead(1)
    \/ GenerateBillCommit(1)
    \/ PrintClosed(1)
    \/ EditBill(1)
    \/ UpdateBill(1)
    \/ CancelEdit(1)

SpecTotals == InitTotals /\ [][NextTotals]_vars

\* One session: the edit of a bill, and its delete from the day book while
\* the edit is open
NextReopen ==
    \/ NextEdit
    \/ DeleteBill(1)

SpecReopen == InitEdit /\ [][NextReopen]_vars

\* The company names typed: the catalogue's, and a new one in two spellings
CompanyNames == {DefaultCompany, <<"Z">>, <<"z">>}

\* The lines the form can make when the company of a new product is typed
\* (AddItemForm trims it), or a product is selected from the list
CompanyLines(prods) ==
    {[Line(TRUE, NoId, "X", 1) EXCEPT !.company = Trim(c)] : c \in CompanyNames}
    \cup {Line(FALSE, p, "X", 1) : p \in DOMAIN prods}

\* One product of the known company
InitCompany ==
    InitWith([products |-> (-1 :> Product(<<Batch(<<1>>, "X", 1)>>)),
              bills |-> <<>>, purchases |-> <<>>], 1)

\* One session: products added in the inventory, purchases with new products saved
NextCompany ==
    \/ \E company \in CompanyNames : AddProductNamed(1, now, company)
    \/ AddPurchaseOf(1, CompanyLines(products[1]))

SpecCompany == InitCompany /\ [][NextCompany]_vars

\* One session: purchases with new products saved and edited
NextCompanyEdit ==
    \/ AddPurchaseOf(1, CompanyLines(products[1]))
    \/ StartEditPurchase(1)
    \/ CancelEditPurchase(1)
    \/ UpdatePurchaseOf(1, CompanyLines(products[1]))

SpecCompanyEdit == InitCompany /\ [][NextCompanyEdit]_vars

\* Two sessions: the second saves purchases; the first, whose listeners
\* deliver one collection at a time, edits them
NextStale ==
    \/ AddPurchase(2)
    \/ \E coll \in {"products", "purchases"} : Snapshot(1, coll)
    \/ StartEditPurchase(1)
    \/ CancelEditPurchase(1)
    \/ UpdatePurchase(1)

SpecStale == InitCompany /\ [][NextStale]_vars

\* ------------------------------------------------------------ payments
\* The amounts entered in the payment form
Amounts == {1, 2}

\* handleAddPayment's voucher number for a payments state
NewVoucherNumber(pays) ==
    <<"P", "V", "-">> \o PadStart(NumberToString(Cardinality(DOMAIN pays) + 1), 4, "0")

\* PaymentEntry.handleSubmit (no payment in edit) -> handleAddPayment: one addDoc
AddPayment(s) ==
    /\ Idle(s)
    /\ \E amount \in Amounts : \E accept \in BOOLEAN :
         LET ws == <<[op |-> "set", coll |-> "payments", id |-> nextId,
                      data |-> [amount |-> amount,
                                voucherNumber |-> NewVoucherNumber(payments[s])]]>>
             ok == Committed(ws, accept)
         IN /\ Commit(s, ws, accept)
            /\ last' = Outcome("addPayment", s, ok, IF ok THEN nextId ELSE NoId)
            /\ nextId' = IF ok THEN nextId + 1 ELSE nextId
    /\ UNCHANGED <<cart, editingBill, editingPurchase, pending, printing, now>>

\* A payment of the list taken in edit, then PaymentEntry.handleSubmit ->
\* handleUpdatePayment: one updateDoc that carries the voucher number shown
UpdatePayment(s) ==
    /\ Idle(s)
    /\ \E id \in DOMAIN payments[s] : \E amount \in Amounts : \E accept \in BOOLEAN :
         LET ws == <<[op |-> "update", coll |-> "payments", id |-> id,
                      data |-> [amount |-> amount,
                                voucherNumber |-> payments[s][id].voucherNumber]]>>
             ok == Committed(ws, accept)
         IN /\ Commit(s, ws, accept)
            /\ last' = Outcome("updatePayment", s, ok, IF ok THEN id ELSE NoId)
    /\ UNCHANGED <<cart, editingBill, editingPurchase, pending, printing, nextId, now>>

\* handleDeletePayment, confirmed: one deleteDoc
DeletePayment(s) ==
    /\ Idle(s)
    /\ \E id \in DOMAIN payments[s] : \E accept \in BOOLEAN :
         LET ws == <<[op |-> "delete", coll |-> "payments", id |-> id, data |-> None]>>
             ok == Committed(ws, accept)
         IN /\ Commit(s, ws, accept)
            /\ last' = Outcome("deletePayment", s, ok, IF ok THEN id ELSE NoId)
    /\ UNCHANGED <<cart, editingBill, editingPurchase, pending, printing, nextId, now>>

\* One payment made earlier; one session: payments added, edited and deleted
InitPayments ==
    \E amount \in Amounts :
        InitWith([products |-> <<>>, bills |-> <<>>, purchases |-> <<>>,
                  payments |-> (-1 :> [amount |-> amount,
                                       voucherNumber |-> NewVoucherNumber(<<>>)])], 0)

NextPayments ==
    \/ AddPayment(1)
    \/ UpdatePayment(1)
    \/ DeletePayment(1)

SpecPayments == InitPayments /\ [][NextPayments]_vars

\* Two earlier bills, one item each, on the two batches of one product; one
\* session: the edit of a bill
InitFrame ==
    \E s1 \in {0} \cup Stocks :
        InitWith([products |-> CatalogueOf(1, s1, 1),
                  bills |-> (-1 :> BillData(BillNumberOf(1), 1, <<Item(-1, <<1>>, 1)>>))
                            @@ (-2 :> BillData(BillNumberOf(2), 2, <<Item(-1, <<2>>, 1)>>)),
                  purchases |-> <<>>], 1)

SpecFrame == InitFrame /\ [][NextEdit]_vars

\* An empty store, one session: purchases saved, edited and deleted, bills
\* generated, edited and deleted
InitEmpty ==
    InitWith([products |-> <<>>, bills |-> <<>>, purchases |-> <<>>], 0)

\* The lines entered in it: a new product while the catalogue is empty, then
\* one unit more of a batch number of a product in the catalogue
ReceiptLines(prods) ==
    IF DOMAIN prods = {} THEN {Line(TRUE, NoId, "X", 2)}
    ELSE {Line(FALSE, p, "X", 1) : p \in DOMAIN prods}

NextConserve ==
    \/ AddPurchaseOf(1, ReceiptLines(products[1]))
    \/ StartEditPurchase(1)
    \/ CancelEditPurchase(1)
    \/ UpdatePurchaseOf(1, ReceiptLines(products[1]))
    \/ DeletePurchase(1)
    \/ AddToCart(1)
    \/ GenerateBillRead(1)
    \/ GenerateBillCommit(1)
    \/ PrintClosed(1)
    \/ EditBill(1)
    \/ UpdateBill(1)
    \/ CancelEdit(1)
    \/ DeleteBill(1)

SpecConserve == InitEmpty /\ [][NextConserve]_vars

\* ------------------------------------------------------------ properties
AllBatches(prods) ==
    UNION {{<<p, i>> : i \in DOMAIN prods[p].batches} : p \in DOMAIN prods}

\* The stock held by product p under batch id, 0 when p has no such batch
StockOf(prods, p, id) ==
    IF p \in DOMAIN prods /\ FindIndexById(prods[p].batches, id) > 0
    THEN prods[p].batches[FindIndexById(prods[p].batches, id)].stock
    ELSE 0

\* The total quantity of the items of a list that name batch id
RECURSIVE TotalFor(_, _)
TotalFor(items, id) ==
    IF items = <<>> THEN 0
    ELSE (IF Head(items).batchId = id THEN Head(items).quantity ELSE 0)
         + TotalFor(Tail(items), id)

\* C1: after any sequence of committed operations every batch of every
\* product has stock >= 0.
C1_StockNeverNegative ==
    \A e \in AllBatches(db.products) : db.products[e[1]].batches[e[2]].stock >= 0

\* C4: a bill generated and then deleted at once, both commits accepted and
\* no store operation in between, leaves every batch's stock as it was
\* before the bill was generated.
C4_GenerateThenDeleteRestores ==
    (last.op = "deleteBill" /\ last.ok /\ last.pre # None) => db.products = last.pre

\* The bill took stock, and the delete gave it back.
C4_Witness ==
    /\ last.op = "deleteBill" /\ last.ok /\ last.pre # None
    /\ last.arg # last.pre
    /\ db.products = last.pre

\* The number written by the digits of a string, the other characters skipped
RECURSIVE DigitsValue(_)
DigitsValue(str) ==
    IF str = <<>> THEN 0
    ELSE LET front == SubSeq(str, 1, Len(str) - 1)
             c == str[Len(str)]
         IN IF IsDigit(c) THEN 10 * DigitsValue(front) + DigitValue(c) ELSE DigitsValue(front)

\* M: the largest number of a bill of the store, 0 when there is none
LargestNumber(docs) ==
    IF DOMAIN docs = {} THEN 0
    ELSE CHOOSE m \in {DigitsValue(docs[b].billNumber) : b \in DOMAIN docs} :
            \A b \in DOMAIN docs : DigitsValue(docs[b].billNumber) <= m

\* str is 'B' followed by n in decimal, zero-padded to at least 4 digits
IsBillNumberFor(str, n) ==
    /\ Len(str) >= 5
    /\ str[1] = "B"
    /\ \A i \in 2..Len(str) : IsDigit(str[i])
    /\ DigitsValue(str) = n
    /\ Len(str) > 5 => str[2] # "0"

\* C5: the number generateBill assigns is 'B' followed by M+1 zero-padded to
\* at least 4 digits, M the largest number among the bills in the store
\* (0 when there is none), whatever gaps deleted bills have left.
C5_NextBillNumber ==
    pending[1] # None =>
        IsBillNumberFor(pending[1].bill.billNumber, LargestNumber(db.bills) + 1)

\* A number is assigned while the store holds a bill numbered 10 and none
\* numbered 9 (it was deleted): the number is B0011.
C5_Witness ==
    /\ pending[1] # None
    /\ \E b \in DOMAIN db.bills : DigitsValue(db.bills[b].billNumber) = 10
    /\ \A b \in DOMAIN db.bills : DigitsValue(db.bills[b].billNumber) # 9
    /\ pending[1].bill.billNumber = <<"B", "0", "0", "1", "1">>

\* C6: no two bills of the store carry the same billNumber, also when two
\* sessions generate bills concurrently.
C6_BillNumbersDistinct ==
    \A a, b \in DOMAIN db.bills :
        a # b => db.bills[a].billNumber # db.bills[b].billNumber

\* C9: the writes of generateBill take effect all or none: a step of its
\* commit either stores the bill together with every product update of the
\* write set, or fails, returns null and leaves bills and products unchanged.
C9_GenerateBillAllOrNothing ==
    [][(pending[1] # None /\ pending'[1] = None) =>
         LET ws == GenerateBillWrites(pending[1].products, nextId, pending[1].bill) IN
         \/ /\ last'.op = "generateBill" /\ ~last'.ok
            /\ db'.bills = db.bills
            /\ db'.products = db.products
         \/ /\ last'.op = "generateBill" /\ last'.ok
            /\ db' = ApplyWrites(db, ws)
            /\ nextId \in DOMAIN db'.bills]_vars

\* A commit of generateBill has failed after an earlier one stored a bill.
C9_Witness ==
    /\ last.op = "generateBill" /\ ~last.ok
    /\ db.bills # <<>>
    /\ cart[1] # <<>>

\* The net change of an edit for batch id: original quantity minus updated
NetDelta(originalItems, updatedItems, id) ==
    TotalFor(originalItems, id) - TotalFor(updatedItems, id)

\* C2: when updateBill commits, every batch named by the original or the
\* updated items holds its stock before the edit plus the original quantity
\* minus the updated quantity, also for several batches of one product, and
\* no other batch changes.
C2_UpdateBillNetDelta ==
    [][(commits' = commits + 1 /\ last'.op = "updateBill" /\ last'.ok) =>
         LET original == editingBill[1].items
             updated == cart[1]
         IN /\ DOMAIN db'.products = DOMAIN db.products
            /\ \A p \in DOMAIN db.products :
                 /\ DOMAIN db'.products[p].batches = DOMAIN db.products[p].batches
                 /\ \A i \in DOMAIN db.products[p].batches :
                      LET b == db.products[p].batches[i] IN
                      db'.products[p].batches[i] =
                          [b EXCEPT !.stock = @ + NetDelta(original, updated, b.id)]]_vars

\* The products an edit touches: those of the items with a non-zero net change
TouchedProducts(originalItems, updatedItems) ==
    {it.productId : it \in {x \in {originalItems[i] : i \in DOMAIN originalItems}
                                  \cup {updatedItems[i] : i \in DOMAIN updatedItems} :
                              NetDelta(originalItems, updatedItems, x.batchId) # 0}}

\* Every touched product is found, and none of its batches would end below 0
EditAcceptable(prods, originalItems, updatedItems) ==
    \A p \in TouchedProducts(originalItems, updatedItems) :
        /\ p \in DOMAIN prods
        /\ \A i \in DOMAIN prods[p].batches :
             prods[p].batches[i].stock
                + NetDelta(originalItems, updatedItems, prods[p].batches[i].id) >= 0

\* C3: updateBill commits only when every product owning a batch with a
\* non-zero net delta is found and no batch of a touched product would end
\* with negative stock; otherwise it returns null and writes nothing: the
\* bill and every product's batches are as before the call.
C3_UpdateBillRejects ==
    [][(editingBill[1] # None /\ cart[1] # <<>> /\ last'.op = "updateBill"
        /\ (last' # last \/ commits' # commits)) =>
         /\ last'.ok => EditAcceptable(products[1], editingBill[1].items, cart[1])
         /\ ~EditAcceptable(products[1], editingBill[1].items, cart[1]) =>
              (~last'.ok /\ db' = db)
         /\ ~last'.ok => db' = db]_vars

\* An edit was refused: some batch would have ended below 0.
C3_Witness ==
    /\ last.op = "updateBill" /\ ~last.ok
    /\ editingBill[1] # None /\ cart[1] # <<>>
    /\ ~EditAcceptable(products[1], editingBill[1].items, cart[1])

\* The total quantity of the lines of a list resolved to batch id of product p
RECURSIVE LinesTotal(_, _, _)
LinesTotal(items, p, id) ==
    IF items = <<>> THEN 0
    ELSE (IF Head(items).productId = p /\ Head(items).batchId = id
          THEN Head(items).quantity ELSE 0)
         + LinesTotal(Tail(items), p, id)

\* The stock product p holds under a batch number, over all its batches
RECURSIVE StockUnder(_, _)
StockUnder(batches, batchNumber) ==
    IF batches = <<>> THEN 0
    ELSE (IF Head(batches).batchNumber = batchNumber THEN Head(batches).stock ELSE 0)
         + StockUnder(Tail(batches), batchNumber)

BatchesUnder(batches, batchNumber) ==
    Cardinality({i \in DOMAIN batches : batches[i].batchNumber = batchNumber})

\* Line l, of an existing product, was applied twice between the product
\* states before and after.
AppliedTwice(before, after, l) ==
    /\ StockUnder(after[l.productId].batches, l.batchNumber)
         = StockUnder(before[l.productId].batches, l.batchNumber) + 2 * l.quantity
    /\ BatchesUnder(after[l.productId].batches, l.batchNumber) = 1

\* C7: the same purchase line (existing product, same batchNumber, quantity
\* q) applied twice raises the stock under that batchNumber by 2*q and leaves
\* exactly one batch with that batchNumber, as two lines of one addPurchase
\* call or as two successive calls, the batchNumber present before or not.
C7_SameLineTwice ==
    [][(last'.op = "addPurchase" /\ last'.ok /\ commits' = commits + 1) =>
         /\ \A l \in PurchaseLines(db.products) :
              (~l.isNewProduct /\ last'.arg = <<l, l>>
               /\ BatchesUnder(db.products[l.productId].batches, l.batchNumber) <= 1)
              => AppliedTwice(db.products, db'.products, l)
         /\ \A l \in PurchaseLines(db.products) :
              (~l.isNewProduct /\ last'.arg = <<l>>
               /\ last.op = "addPurchase" /\ last.ok /\ last.arg = <<l>>
               /\ BatchesUnder(last.pre[l.productId].batches, l.batchNumber) <= 1)
              => AppliedTwice(last.pre, db'.products, l)]_vars

\* The item or line names a batch that its product holds
RefersToBatch(prods, item) ==
    /\ item.productId \in DOMAIN prods
    /\ FindIndexById(prods[item.productId].batches, item.batchId) > 0

ReferencesResolve(d) ==
    /\ \A b \in DOMAIN d.bills : \A i \in DOMAIN d.bills[b].items :
         RefersToBatch(d.products, d.bills[b].items[i])
    /\ \A q \in DOMAIN d.purchases : \A i \in DOMAIN d.purchases[q].items :
         LET line == d.purchases[q].items[i] IN
         (line.productId # NoId /\ line.batchId # NoBatch) => RefersToBatch(d.products, line)

BatchReferenced(d, batchId) ==
    \/ \E b \in DOMAIN d.bills : \E i \in DOMAIN d.bills[b].items :
         d.bills[b].items[i].batchId = batchId
    \/ \E q \in DOMAIN d.purchases : \E i \in DOMAIN d.purchases[q].items :
         d.purchases[q].items[i].batchId = batchId

\* C10: after any sequence of operations every item of every bill and every
\* resolved line of every purchase refers to a batch present in the product
\* it names, and deleteBatch removes a batch only when no bill item and no
\* purchase line references its id.
C10_ReferencesResolve ==
    [][/\ ReferencesResolve(db')
       /\ (last'.op = "deleteBatch" /\ last'.ok /\ commits' = commits + 1)
            => ~BatchReferenced(db, last'.arg)]_vars

Max0(n) == IF n < 0 THEN 0 ELSE n

\* The last operation was a committed updatePurchase, and batch i of product
\* p holds max(0, s - R + A)
RestockedAsClaimed(p, i) ==
    LET id == db.products[p].batches[i].id
        s == StockOf(last.pre.products, p, id)
        R == LinesTotal(last.pre.original, p, id)
        A == LinesTotal(db.purchases[last.id].items, p, id)
    IN db.products[p].batches[i].stock = Max0(s - R + A)

\* C8: when updatePurchase commits, each batch holds max(0, s - R + A): s its
\* stock in the product state at the time of the edit (0 for a batch the edit
\* creates), R the total of the original lines resolved to its id, A the
\* total of the updated lines resolved to it.
C8_UpdatePurchaseStock ==
    (last.op = "updatePurchase" /\ last.ok) =>
        \A p \in DOMAIN db.products :
            \A i \in DOMAIN db.products[p].batches : RestockedAsClaimed(p, i)

\* An edit was committed whose revert exceeds the stock and what is applied:
\* the batch is left at 0; another batch of the edit holds what was applied.
C8_Witness ==
    /\ last.op = "updatePurchase" /\ last.ok
    /\ \E p \in DOMAIN db.products :
         /\ \E i \in DOMAIN db.products[p].batches :
              LET id == db.products[p].batches[i].id IN
              /\ LinesTotal(db.purchases[last.id].items, p, id) > 0
              /\ StockOf(last.pre.products, p, id) - LinesTotal(last.pre.original, p, id)
                   + LinesTotal(db.purchases[last.id].items, p, id) < 0
              /\ db.products[p].batches[i].stock = 0
         /\ \E i \in DOMAIN db.products[p].batches :
              /\ db.products[p].batches[i].stock > 0
              /\ RestockedAsClaimed(p, i)

\* C11: after any sequence of addProduct, addBatch, addPurchase and
\* updatePurchase no product holds two batches with the same id, also for
\* batches created in one purchase save or at the same clock instant.
C11_BatchIdsDistinct ==
    \A p \in DOMAIN db.products :
        \A i, k \in DOMAIN db.products[p].batches :
            db.products[p].batches[i].id = db.products[p].batches[k].id => i = k

\* C12: after any sequence of addProduct, addBatch, addPurchase and
\* updatePurchase no product holds two batches with the same batchNumber.
C12_BatchNumbersDistinct ==
    \A p \in DOMAIN db.products :
        \A batchNumber \in BatchNumbers :
            BatchesUnder(db.products[p].batches, batchNumber) <= 1

\* The bill under edit is no longer in the store
EditsDeletedBill == editingBill[1] # None /\ editingBill[1].id \notin DOMAIN db.bills

\* C13: once deleteBill has committed, an updateBill for that bill (from an
\* edit opened before the delete) commits nothing: the bill is not created
\* again and no product's stock changes.
C13_NoUpdateAfterDelete ==
    [][(EditsDeletedBill /\ last'.op = "updateBill") =>
         (~last'.ok /\ db'.bills = db.bills /\ db'.products = db.products)]_vars

\* An edit of a deleted bill that changes stock was saved and failed.
C13_Witness ==
    /\ EditsDeletedBill
    /\ last.op = "updateBill" /\ ~last.ok
    /\ cart[1] # <<>>
    /\ LET r == HandleUpdateBill(products[1], editingBill[1].id,
                                 BillData(editingBill[1].billNumber, editingBill[1].date, cart[1]),
                                 editingBill[1])
       IN ~r.fatal /\ Len(r.writes) > 1

\* C14: when the store rejects the commit of generateBill, updateBill,
\* addPurchase or updatePurchase, the entry state being submitted (the
\* billing cart, the bill or the purchase being edited) is left unchanged,
\* so that the user can retry.
C14_FailedCommitKeepsEntry ==
    [][(last' # last /\ ~last'.ok
        /\ last'.op \in {"generateBill", "updateBill", "addPurchase", "updatePurchase"}) =>
         /\ cart' = cart
         /\ editingBill' = editingBill
         /\ editingPurchase' = editingPurchase]_vars


\* The sum of the item totals, which are whole rupees
RECURSIVE SumOfTotals(_)
SumOfTotals(items) ==
    IF items = <<>> THEN 0 ELSE Head(items).total + SumOfTotals(Tail(items))

\* The sums of the base prices and of the taxes of the items, each division,
\* subtraction and addition rounded, in the order of the items
RECURSIVE SumOfBase(_)
SumOfBase(items) ==
    IF items = <<>> THEN Zero
    ELSE LET item == items[Len(items)] IN
         FAdd(SumOfBase(SubSeq(items, 1, Len(items) - 1)),
              FDiv(FromInt(item.total), FAdd(FromInt(1), FDiv(FromInt(item.gst), FromInt(100)))))

RECURSIVE SumOfTax(_)
SumOfTax(items) ==
    IF items = <<>> THEN Zero
    ELSE LET item == items[Len(items)] IN
         FAdd(SumOfTax(SubSeq(items, 1, Len(items) - 1)),
              FSub(FromInt(item.total),
                   FDiv(FromInt(item.total), FAdd(FromInt(1), FDiv(FromInt(item.gst), FromInt(100))))))

TotalsAsStated(bill) ==
    /\ \A i \in DOMAIN bill.items : bill.items[i].total = bill.items[i].mrp * bill.items[i].quantity
    /\ bill.subTotal = SumOfBase(bill.items)
    /\ bill.totalGst = SumOfTax(bill.items)
    /\ bill.grandTotal = FAdd(bill.subTotal, bill.totalGst)

\* C15 (as stated): every stored bill has grandTotal = subTotal + totalGst,
\* with every item's total = mrp * quantity, subTotal the sum of
\* total / (1 + gst/100) and totalGst the sum of total minus that base price,
\* so that grandTotal equals the sum of the item totals.
C15_GrandTotalIsSumOfTotals ==
    \A id \in DOMAIN db.bills :
        /\ TotalsAsStated(db.bills[id])
        /\ db.bills[id].grandTotal = FromInt(SumOfTotals(db.bills[id].items))

\* C15 (amended): every stored bill has grandTotal = subTotal + totalGst,
\* with every item's total = mrp * quantity, subTotal the sum of
\* total / (1 + gst/100) and totalGst the sum of total minus that base price,
\* each operation rounded as the program's numbers are; the equality of
\* grandTotal and the sum of the item totals is not part of it.
C15_BillTotals == \A id \in DOMAIN db.bills : TotalsAsStated(db.bills[id])

\* An edit stored a bill of several items, one of them of two units, that
\* was generated in the same run
C15_Witness ==
    /\ last.op = "updateBill" /\ last.ok /\ last.id >= 1
    /\ last.id \in DOMAIN db.bills
    /\ Len(db.bills[last.id].items) >= 2
    /\ \E i \in DOMAIN db.bills[last.id].items : db.bills[last.id].items[i].quantity = 2


\* C16: when generateBill commits, every batch referenced by the cart has its
\* stock reduced by exactly the total quantity of the cart lines that
\* reference it, and no other batch changes, also when the cart holds lines
\* for different batches of the same product.
C16_GenerateBillDecrements ==
    [][(pending[1] # None /\ last'.op = "generateBill" /\ last'.ok) =>
         /\ DOMAIN db'.products = DOMAIN db.products
         /\ \A p \in DOMAIN db.products :
              /\ DOMAIN db'.products[p].batches = DOMAIN db.products[p].batches
              /\ \A i \in DOMAIN db.products[p].batches :
                   db'.products[p].batches[i] =
                      [db.products[p].batches[i] EXCEPT
                          !.stock = @ - LinesTotal(pending[1].bill.items, p,
                                                   db.products[p].batches[i].id)]]_vars


\* C17: when deleteBill commits, the bill is removed and every batch
\* referenced by the bill's items has its stock increased by exactly the total
\* quantity of the items that reference it, also when the bill holds items for
\* different batches of the same product (no product is removed in this
\* specification, so no item is skipped).
C17_DeleteBillIncrements ==
    [][(last' # last /\ last'.op = "deleteBill" /\ last'.ok) =>
         /\ last'.id \in DOMAIN db.bills
         /\ last'.id \notin DOMAIN db'.bills
         /\ DOMAIN db'.products = DOMAIN db.products
         /\ \A p \in DOMAIN db.products :
              /\ DOMAIN db'.products[p].batches = DOMAIN db.products[p].batches
              /\ \A i \in DOMAIN db.products[p].batches :
                   db'.products[p].batches[i] =
                      [db.products[p].batches[i] EXCEPT
                          !.stock = @ + LinesTotal(db.bills[last'.id].items, p,
                                                   db.products[p].batches[i].id)]]_vars


\* The total quantity of the lines of a list on existing product p under a
\* batch number
RECURSIVE QuantityOn(_, _, _)
QuantityOn(items, p, batchNumber) ==
    IF items = <<>> THEN 0
    ELSE (IF ~Head(items).isNewProduct /\ Head(items).productId = p
             /\ Head(items).batchNumber = batchNumber
          THEN Head(items).quantity ELSE 0)
         + QuantityOn(Tail(items), p, batchNumber)

\* The stored line names a batch of its product that carries the line's
\* batch number, price and expiry date
LineReceived(prods, stored) ==
    /\ RefersToBatch(prods, stored)
    /\ LET b == prods[stored.productId].batches[
                    FindIndexById(prods[stored.productId].batches, stored.batchId)]
       IN /\ b.batchNumber = stored.batchNumber
          /\ b.mrp = stored.mrp
          /\ b.purchasePrice = stored.purchasePrice
          /\ b.expiryDate = stored.expiryDate

\* C18: when addPurchase commits, every line on an existing product takes
\* effect: the stock its product holds under the line's batch number grows by
\* the quantity of the lines on it (in the batch of that number, or in a new
\* batch appended for it), and the stored line's batchId names a batch of the
\* product with the line's values; in any line order, also when several
\* lines of the purchase refer to the same product.
C18_AddPurchaseLinesTakeEffect ==
    [][(last' # last /\ last'.op = "addPurchase" /\ last'.ok) =>
         /\ \A p \in DOMAIN db.products : \A batchNumber \in BatchNumbers :
              StockUnder(db'.products[p].batches, batchNumber)
                 = StockUnder(db.products[p].batches, batchNumber)
                   + QuantityOn(last'.arg, p, batchNumber)
         /\ \A i \in DOMAIN last'.arg :
              ~last'.arg[i].isNewProduct =>
                 LineReceived(db'.products, db'.purchases[last'.id].items[i])]_vars


\* Line i of the purchase saved by the step made a product of its own
NewProductMade(i) ==
    LET line == last'.arg[i]
        stored == db'.purchases[last'.id].items[i]
    IN /\ stored.productId \notin DOMAIN db.products
       /\ stored.productId \in DOMAIN db'.products
       /\ Len(db'.products[stored.productId].batches) = 1
       /\ db'.products[stored.productId].batches[1].stock = line.quantity
       /\ db'.products[stored.productId].batches[1].id = stored.batchId
       /\ stored.isNewProduct = FALSE
       /\ \A k \in DOMAIN last'.arg :
            (k # i /\ last'.arg[k].isNewProduct) =>
               db'.purchases[last'.id].items[k].productId # stored.productId

\* C19: for every line with isNewProduct = true, addPurchase and
\* updatePurchase create a new product containing exactly one batch whose
\* stock equals the line quantity, and the line stored in the purchase
\* carries that product's id, that batch's id and isNewProduct = false; every
\* line of every stored purchase has isNewProduct = false.
C19_NewProductLines ==
    [][/\ (last' # last /\ last'.ok /\ last'.op \in {"addPurchase", "updatePurchase"}) =>
            /\ Len(db'.purchases[last'.id].items) = Len(last'.arg)
            /\ \A i \in DOMAIN last'.arg : last'.arg[i].isNewProduct => NewProductMade(i)
       /\ \A q \in DOMAIN db'.purchases : \A i \in DOMAIN db'.purchases[q].items :
            db'.purchases[q].items[i].isNewProduct = FALSE]_vars

\* An edit added a new-product line to a purchase that addPurchase had saved
\* with a new-product line
C19_Witness ==
    /\ last.op = "updatePurchase" /\ last.ok /\ last.id >= 1
    /\ \E i \in DOMAIN last.arg : last.arg[i].isNewProduct
    /\ \E i \in DOMAIN last.arg : ~last.arg[i].isNewProduct /\ last.arg[i].productId >= 1


\* C20: when deletePurchase commits, the purchase is removed and every batch
\* named by a resolved line has its stock reduced by the total quantity of
\* the lines resolved to it, floored at zero, also when several lines refer
\* to the same product; no other batch changes.
C20_DeletePurchaseSubtracts ==
    [][(last' # last /\ last'.op = "deletePurchase" /\ last'.ok) =>
         /\ last'.id \in DOMAIN db.purchases
         /\ last'.id \notin DOMAIN db'.purchases
         /\ DOMAIN db'.products = DOMAIN db.products
         /\ \A p \in DOMAIN db.products :
              /\ DOMAIN db'.products[p].batches = DOMAIN db.products[p].batches
              /\ \A i \in DOMAIN db.products[p].batches :
                   db'.products[p].batches[i] =
                      [db.products[p].batches[i] EXCEPT
                          !.stock = Max0(@ - LinesTotal(db.purchases[last'.id].items, p,
                                                        db.products[p].batches[i].id))]]_vars


\* Some company record carries the name
CompanyRecorded(comps, companyName) == \E c \in DOMAIN comps : comps[c].name = companyName

\* C21: when updatePurchase commits, every new-product line of the updated
\* purchase whose company name matched no known company, ignoring case, has a
\* Company record with that name, as after addPurchase.
C21_UpdatePurchaseCreatesCompanies ==
    [][(last' # last /\ last'.op = "updatePurchase" /\ last'.ok) =>
         \A i \in DOMAIN last'.arg :
            (/\ last'.arg[i].isNewProduct
             /\ Trim(last'.arg[i].company) # <<>>
             /\ ~CompanyExists(db.companies, Trim(last'.arg[i].company)))
            => CompanyRecorded(db'.companies, Trim(last'.arg[i].company))]_vars


\* The line names an existing product that the catalogue does not hold
ProductMissing(prods, item) ==
    ~item.isNewProduct /\ item.productId # NoId /\ item.productId \notin DOMAIN prods

\* C22: a purchase transaction whose line references an existing product
\* that is not found in the catalogue of the session does not commit: it
\* never stores a purchase from which the line was dropped.
C22_MissingProductAborts ==
    [][(last' # last /\ last'.op \in {"addPurchase", "updatePurchase"}
        /\ \E i \in DOMAIN last'.arg : ProductMissing(products[last'.s], last'.arg[i]))
       => (~last'.ok /\ db' = db)]_vars


\* C23: a generateBill commit stores, for the batch of its cart line, the
\* stock its session had read less the line's quantity, whatever the store
\* holds by then and without failing on the difference; so two calls that
\* read the same stock both commit, and the stock is reduced by only one of
\* the two quantities.
C23_CommitWritesStockAsRead ==
    [][\A s \in Sessions :
         (pending[s] # None /\ last' # last /\ last'.s = s
          /\ last'.op = "generateBill" /\ last'.ok) =>
            \A i \in DOMAIN pending[s].bill.items :
               LET item == pending[s].bill.items[i] IN
               StockOf(db'.products, item.productId, item.batchId)
                  = StockOf(pending[s].products, item.productId, item.batchId)
                    - item.quantity]_vars

\* Both bills exist, the second committed by the other session on the stock
\* the first had read, and the batch holds that stock less the second
\* quantity only
C23_Witness ==
    /\ last.op = "generateBill" /\ last.ok
    /\ \E a \in DOMAIN db.bills :
         /\ a # last.id
         /\ last.id \in DOMAIN db.bills
         /\ Len(db.bills[a].items) = 1 /\ Len(db.bills[last.id].items) = 1
         /\ LET first == db.bills[a].items[1]
                second == db.bills[last.id].items[1]
            IN /\ first.batchId = second.batchId
               /\ StockOf(db.products, second.productId, second.batchId)
                    = StockOf(last.pre, first.productId, first.batchId)
                      + first.quantity - second.quantity


\* The total quantity the documents of a collection hold for batch id of
\* product p
RECURSIVE QuantityIn(_, _, _)
QuantityIn(docs, p, id) ==
    IF DOMAIN docs = {} THEN 0
    ELSE LET d == CHOOSE x \in DOMAIN docs : TRUE
         IN LinesTotal(docs[d].items, p, id)
            + QuantityIn([x \in DOMAIN docs \ {d} |-> docs[x]], p, id)

\* C24: from an empty store, in one session, each batch's stock is the total
\* quantity of the lines of the existing purchases resolved to it less the
\* total quantity of the items of the existing bills for it.
C24_StockConservation ==
    \A e \in AllBatches(db.products) :
       LET b == db.products[e[1]].batches[e[2]]
       IN b.stock = QuantityIn(db.purchases, e[1], b.id) - QuantityIn(db.bills, e[1], b.id)


\* The batches of a catalogue, each named by its product and its id
BatchKeys(prods) ==
    {<<e[1], prods[e[1]].batches[e[2]].id>> : e \in AllBatches(prods)}

\* C25: addPurchase followed at once by deletePurchase of the purchase it
\* stored, both committed, restores the stock of every batch that existed
\* before the addPurchase and leaves every batch the purchase created with
\* stock 0.
C25_AddThenDeletePurchase ==
    [][(last.op = "addPurchase" /\ last.ok /\ last' # last
        /\ last'.op = "deletePurchase" /\ last'.ok /\ last'.id = last.id) =>
          \A k \in BatchKeys(db'.products) :
             StockOf(db'.products, k[1], k[2])
                = IF k \in BatchKeys(last.pre) THEN StockOf(last.pre, k[1], k[2]) ELSE 0]_vars


\* C26: updateBill committed again from the same edit session, with the cart
\* its first commit stored and before the print callback closes the session,
\* leaves every batch's stock as the first commit left it.
C26_SecondSubmitKeepsStock ==
    [][\A s \in Sessions :
         (/\ last.op = "updateBill" /\ last.ok /\ last.s = s
          /\ printing[s] = "edit"
          /\ editingBill[s] # None
          /\ last.id = editingBill[s].id
          /\ last.id \in DOMAIN db.bills
          /\ cart[s] = db.bills[last.id].items
          /\ last'.op = "updateBill" /\ last'.ok
          /\ commits' = commits + 1)
         => db'.products = db.products]_vars


\* C27: over generateBill and deleteBill, the bill number given to a newly
\* generated bill has never been given to an earlier bill, deleted or not.
C27_BillNumberNeverReused ==
    [][(last' # last /\ last'.op = "generateBill" /\ last'.ok)
       => db'.bills[last'.id].billNumber \notin issued]_vars

\* C28: after any sequence of addPayment, updatePayment and deletePayment, no
\* two existing payments carry the same voucherNumber.
C28_VoucherNumbersUnique ==
    \A x \in DOMAIN db.payments : \A y \in DOMAIN db.payments :
       (x # y) => db.payments[x].voucherNumber # db.payments[y].voucherNumber

\* C29: after any sequence of addProduct and addPurchase, no two Company
\* records have names that are equal ignoring case (so no save has created
\* two records for one new company name).
C29_CompanyNamesUnique ==
    \A x \in DOMAIN db.companies : \A y \in DOMAIN db.companies :
       (x # y) => ToLowerCase(db.companies[x].name) # ToLowerCase(db.companies[y].name)

\* C30: a committed updateBill leaves the edited bill's id, billNumber and
\* date as they were (its items and totals are the ones submitted), and every
\* other bill of the store unchanged.
C30_UpdateBillFrame ==
    [][(commits' = commits + 1 /\ last'.op = "updateBill" /\ last'.ok) =>
         /\ DOMAIN db'.bills = DOMAIN db.bills
         /\ last'.id \in DOMAIN db.bills
         /\ db'.bills[last'.id].billNumber = db.bills[last'.id].billNumber
         /\ db'.bills[last'.id].date = db.bills[last'.id].date
         /\ db'.bills[last'.id].items = cart[last'.s]
         /\ \A other \in DOMAIN db.bills \ {last'.id} : db'.bills[other] = db.bills[other]]_vars

\* The first bill was saved with other items than it had, next to the second bill
C30_Witness ==
    /\ last.op = "updateBill" /\ last.ok /\ last.id = -1
    /\ DOMAIN db.bills = {-1, -2}
    /\ db.bills[-1].items # <<Item(-1, <<1>>, 1)>>
    /\ db.bills[-1].date # now

====
